---- MODULE Spec2Model ----
(***************************************************************************)
(* Model of the command-execution tracker of tmux-mcp (src/src/tmux.ts):   *)
(* executeCommand, checkCommandStatus, getCommand, getActiveCommandIds and *)
(* cleanupOldCommands over the activeCommands map, setShellConfig and      *)
(* getEndMarkerText over shellConfig, with the tmux gateway (executeTmux)  *)
(* as the only asynchronous operation.                                     *)
(*                                                                         *)
(* Specifications: Spec (any interleaving of the calls), SpecSeq (calls    *)
(* one after the other), SpecParse (the marker parser), SpecSend (the      *)
(* dispatcher and the shell adapter), SpecNoEnd (commands that never       *)
(* finish), SpecPoll (polling, with fairness) and SpecPane (the pane and   *)
(* its shell followed step by step).                                       *)
(*                                                                         *)
(* Texts (pane content, commands, results) are sequences of one-character  *)
(* strings; positions in them are 0-based as in JavaScript, -1 = absent.   *)
(***************************************************************************)
EXTENDS Integers, Sequences, FiniteSets, TLC

----------------------------------------------------------------------------
(* JavaScript string primitives used by checkCommandStatus.                *)

Min(a, b) == IF a <= b THEN a ELSE b
Max(a, b) == IF a >= b THEN a ELSE b

\* String.prototype.substring(start, end): both ends clamped to 0..length and
\* swapped when start > end.
Substring(s, start, end) ==
    LET a  == Max(0, Min(start, Len(s)))
        b  == Max(0, Min(end, Len(s)))
        lo == Min(a, b)
        hi == Max(a, b)
    IN SubSeq(s, lo + 1, hi)

\* String.prototype.substring(start)
SubstringFrom(s, start) == Substring(s, start, Len(s))

\* whether pat occurs in s at 0-based position i
OccursAt(s, pat, i) ==
    /\ i >= 0
    /\ i + Len(pat) <= Len(s)
    /\ SubSeq(s, i + 1, i + Len(pat)) = pat

Occurrences(s, pat) == {i \in 0..(Len(s) - Len(pat)) : OccursAt(s, pat, i)}

\* String.prototype.indexOf
IndexOf(s, pat) ==
    LET occ == Occurrences(s, pat)
    IN IF occ = {} THEN -1 ELSE CHOOSE i \in occ : \A j \in occ : i <= j

\* indexOf where the code calls lastIndexOf: the first occurrence
FirstIndexOf(s, pat) ==
    LET occ == Occurrences(s, pat)
    IN IF occ = {} THEN -1 ELSE CHOOSE i \in occ : \A j \in occ : i <= j

\* String.prototype.lastIndexOf
LastIndexOf(s, pat) ==
    LET occ == Occurrences(s, pat)
    IN IF occ = {} THEN -1 ELSE CHOOSE i \in occ : \A j \in occ : i >= j

\* the white space String.prototype.trim removes (of the characters used here)
WhiteSpace == {" ", "\n", "\t", "\r"}

\* String.prototype.trim
Trim(s) ==
    LET keep == {i \in 1..Len(s) : s[i] \notin WhiteSpace}
    IN IF keep = {} THEN <<>>
       ELSE SubSeq(s, CHOOSE i \in keep : \A j \in keep : i <= j,
                      CHOOSE i \in keep : \A j \in keep : i >= j)

\* s.split('\n')[0]
FirstLine(s) ==
    LET nl == IndexOf(s, <<"\n">>)
    IN IF nl = -1 THEN s ELSE Substring(s, 0, nl)

Digits == {"0", "1", "2", "3", "4", "5", "6", "7", "8", "9"}

DigitValue(c) ==
    CASE c = "0" -> 0 [] c = "1" -> 1 [] c = "2" -> 2 [] c = "3" -> 3
      [] c = "4" -> 4 [] c = "5" -> 5 [] c = "6" -> 6 [] c = "7" -> 7
      [] c = "8" -> 8 [] c = "9" -> 9

\* parseInt(ds, 10) for a non-empty string of decimal digits
RECURSIVE ParseInt(_)
ParseInt(ds) ==
    IF ds = <<>> THEN 0
    ELSE 10 * ParseInt(SubSeq(ds, 1, Len(ds) - 1)) + DigitValue(ds[Len(ds)])

\* the longest run of decimal digits at the start of s: what (\d+) captures
RECURSIVE LeadingDigits(_)
LeadingDigits(s) ==
    IF s = <<>> \/ s[1] \notin Digits THEN <<>>
    ELSE <<s[1]>> \o LeadingDigits(Tail(s))

----------------------------------------------------------------------------
(* Optional fields (result?, exitCode?): <<>> is unset, <<v>> is set to v. *)

Unset == <<>>
Some(v) == <<v>>

----------------------------------------------------------------------------
(* Program constants.                                                      *)

startMarkerText == <<"T","M","U","X","_","M","C","P","_","S","T","A","R","T">>
endMarkerPrefix == <<"T","M","U","X","_","M","C","P","_","D","O","N","E","_">>

\* the two fixed texts checkCommandStatus stores in result; each is kept as a
\* text of one indivisible symbol, since nothing ever looks inside it
RawModeAdvice ==
    <<"Status tracking unavailable for rawMode commands. Use capture-pane to monitor interactive apps instead.">>
NotCapturedAdvice == <<"Command output could not be captured properly">>

VALID_SHELLS ==
    { <<"b","a","s","h">>, <<"z","s","h">>, <<"f","i","s","h">>, <<"s","h">>,
      <<"d","a","s","h">>, <<"k","s","h">>, <<"t","c","s","h">>, <<"c","s","h">>,
      <<"s","s","h">>, <<"m","o","s","h">> }

specialKeys ==
    { <<"U","p">>, <<"D","o","w","n">>, <<"L","e","f","t">>, <<"R","i","g","h","t">>,
      <<"E","s","c","a","p","e">>, <<"T","a","b">>, <<"E","n","t","e","r">>,
      <<"S","p","a","c","e">>, <<"B","S","p","a","c","e">>, <<"D","e","l","e","t","e">>,
      <<"H","o","m","e">>, <<"E","n","d">>, <<"P","a","g","e","U","p">>,
      <<"P","a","g","e","D","o","w","n">>,
      <<"F","1">>, <<"F","2">>, <<"F","3">>, <<"F","4">>, <<"F","5">>, <<"F","6">>,
      <<"F","7">>, <<"F","8">>, <<"F","9">>, <<"F","1","0">>, <<"F","1","1">>,
      <<"F","1","2">> }

\* the shell families of ShellType (line 42) and validShells (line 48)
ShellBash == <<"b","a","s","h">>
ShellZsh == <<"z","s","h">>
ShellFish == <<"f","i","s","h">>
validShells == {ShellBash, ShellZsh, ShellFish}

\* (1000 * 60): milliseconds per minute, the divisor of cleanupOldCommands
MsPerMinute == 1000 * 60

UpperCase == <<"A","B","C","D","E","F","G","H","I","J","K","L","M",
               "N","O","P","Q","R","S","T","U","V","W","X","Y","Z">>
LowerCase == <<"a","b","c","d","e","f","g","h","i","j","k","l","m",
               "n","o","p","q","r","s","t","u","v","w","x","y","z">>

\* String.prototype.toLowerCase
ToLowerCase(s) ==
    [i \in 1..Len(s) |->
        IF \E k \in 1..26 : UpperCase[k] = s[i]
        THEN LowerCase[CHOOSE k \in 1..26 : UpperCase[k] = s[i]]
        ELSE s[i]]

\* text.replace(/'/g, "'\\''"): every single quote becomes '\''
RECURSIVE EscapeQuotes(_)
EscapeQuotes(s) ==
    IF s = <<>> THEN <<>>
    ELSE (IF s[1] = "'" THEN <<"'", "\\", "'", "'">> ELSE <<s[1]>>)
         \o EscapeQuotes(Tail(s))

----------------------------------------------------------------------------
(* checkCommandStatus after the capture: lines 329-364.                    *)

\* endLine.match(new RegExp(`${endMarkerPrefix}(\\d+)`)): the digits captured
\* at the first place where the prefix is followed by a digit, or Unset (null)
MatchEndMarker(endLine) ==
    LET hits == {i \in Occurrences(endLine, endMarkerPrefix) :
                    LeadingDigits(SubstringFrom(endLine, i + Len(endMarkerPrefix))) # <<>>}
    IN IF hits = {} THEN Unset
       ELSE LET i == CHOOSE h \in hits : \A j \in hits : h <= j
            IN Some(LeadingDigits(SubstringFrom(endLine, i + Len(endMarkerPrefix))))

\* StatusOf without the test of the exit code
StatusOfAlwaysCompleted(exitCode) == "completed"

\* the status an exit code gives (line 351)
StatusOf(exitCode) == IF exitCode = 0 THEN "completed" ELSE "error"

\* the output between the markers (lines 355-358)
ExtractOutput(content, startIndex, endIndex) ==
    LET outputStart   == startIndex + Len(startMarkerText)
        outputContent == Trim(Substring(content, outputStart, endIndex))
    IN Trim(SubstringFrom(outputContent, IndexOf(outputContent, <<"\n">>) + 1))

\* MarkersFound with the comparison of line 338 turned round
MarkersFoundEndFirst(startIndex, endIndex) ==
    ~ (startIndex = -1 \/ endIndex = -1 \/ endIndex >= startIndex)

\* whether the markers are located in order (the negation of line 338)
MarkersFound(startIndex, endIndex) ==
    ~ (startIndex = -1 \/ endIndex = -1 \/ endIndex <= startIndex)

\* AfterCapture with the output stored before the exit code is matched: a
\* marker without digits leaves the record pending with a result
AfterCaptureOutputFirst(command, content) ==
    IF command.rawMode
    THEN [command EXCEPT !.result = Some(RawModeAdvice)]
    ELSE LET startIndex == LastIndexOf(content, startMarkerText)
             endIndex   == LastIndexOf(content, endMarkerPrefix)
         IN IF ~ MarkersFound(startIndex, endIndex)
            THEN [command EXCEPT !.result = Some(NotCapturedAdvice)]
            ELSE LET endLine       == FirstLine(SubstringFrom(content, endIndex))
                     exitCodeMatch == MatchEndMarker(endLine)
                     output        == Some(ExtractOutput(content, startIndex, endIndex))
                 IN IF exitCodeMatch # Unset
                    THEN LET exitCode == ParseInt(exitCodeMatch[1])
                         IN [command EXCEPT
                               !.status   = StatusOf(exitCode),
                               !.exitCode = Some(exitCode),
                               !.result   = output]
                    ELSE [command EXCEPT !.result = output]

\* AfterCapture without the rawMode branch of lines 329-332: the markers are
\* parsed for every record
AfterCaptureNoRawBranch(command, content) ==
    LET startIndex == LastIndexOf(content, startMarkerText)
        endIndex   == LastIndexOf(content, endMarkerPrefix)
    IN IF ~ MarkersFound(startIndex, endIndex)
       THEN [command EXCEPT !.result = Some(NotCapturedAdvice)]
       ELSE LET endLine       == FirstLine(SubstringFrom(content, endIndex))
                exitCodeMatch == MatchEndMarker(endLine)
            IN IF exitCodeMatch # Unset
               THEN LET exitCode == ParseInt(exitCodeMatch[1])
                    IN [command EXCEPT
                          !.status   = StatusOf(exitCode),
                          !.exitCode = Some(exitCode),
                          !.result   = Some(ExtractOutput(content, startIndex, endIndex))]
               ELSE command

\* AfterCapture with a capture that cannot be parsed treated as a failure
\* of the command
AfterCaptureUnparsedIsError(command, content) ==
    IF command.rawMode
    THEN [command EXCEPT !.result = Some(RawModeAdvice)]
    ELSE LET startIndex == LastIndexOf(content, startMarkerText)
             endIndex   == LastIndexOf(content, endMarkerPrefix)
         IN IF ~ MarkersFound(startIndex, endIndex)
            THEN [command EXCEPT !.status = "error",
                                 !.result = Some(NotCapturedAdvice)]
            ELSE LET endLine       == FirstLine(SubstringFrom(content, endIndex))
                     exitCodeMatch == MatchEndMarker(endLine)
                 IN IF exitCodeMatch # Unset
                    THEN LET exitCode == ParseInt(exitCodeMatch[1])
                         IN [command EXCEPT
                               !.status   = StatusOf(exitCode),
                               !.exitCode = Some(exitCode),
                               !.result   = Some(ExtractOutput(content, startIndex, endIndex))]
                    ELSE [command EXCEPT !.status = "error"]

\* the record object after lines 329-364 ran on the captured content
AfterCapture(command, content) ==
    IF command.rawMode
    THEN [command EXCEPT !.result = Some(RawModeAdvice)]
    ELSE LET startIndex == LastIndexOf(content, startMarkerText)
             endIndex   == LastIndexOf(content, endMarkerPrefix)
         IN IF ~ MarkersFound(startIndex, endIndex)
            THEN [command EXCEPT !.result = Some(NotCapturedAdvice)]
            ELSE LET endLine       == FirstLine(SubstringFrom(content, endIndex))
                     exitCodeMatch == MatchEndMarker(endLine)
                 IN IF exitCodeMatch # Unset
                    THEN LET exitCode == ParseInt(exitCodeMatch[1])
                         IN [command EXCEPT
                               !.status   = StatusOf(exitCode),
                               !.exitCode = Some(exitCode),
                               !.result   = Some(ExtractOutput(content, startIndex, endIndex))]
                    ELSE command

\* whether lines 348-362 ran, so that activeCommands.set(commandId, command)
\* (line 361) was executed
SetsInMap(command, content) ==
    LET startIndex == LastIndexOf(content, startMarkerText)
        endIndex   == LastIndexOf(content, endMarkerPrefix)
    IN /\ ~ command.rawMode
       /\ MarkersFound(startIndex, endIndex)
       /\ MatchEndMarker(FirstLine(SubstringFrom(content, endIndex))) # Unset

----------------------------------------------------------------------------
(* Bounds of the model and the inputs the operations are called with.      *)

\* identifiers uuidv4 hands out: 1..MaxCommands, each used once
MaxCommands == 2
\* callers that may have an asynchronous call in flight at the same time
MaxCalls == 2
\* minutes the clock advances
MaxTicks == 1

Ids == 1..MaxCommands
Calls == 1..MaxCalls
Panes == {"%0"}
MaxAges == {0, 1}

NL == <<"\n">>
Prompt == <<"$", " ">>
Enter == <<"E","n","t","e","r">>
hookToken == <<"_","_","m","c","p","_","s","t","a","r","t">>

\* the command submitted (a shell command holding a quote)
CmdText == <<"l", "'">>
Commands == {CmdText}

\* foreground processes a pane may report
ProcBash == <<"b","a","s","h">>
ProcVim == <<"v","i","m">>
Procs == {ProcBash, ProcVim}

\* what a pane may show: a command still running after the hook printed the
\* start marker; the same with the end marker printed after the output "hi"
\* (exit status 0) and after no output (exit status 127); and an end marker
\* whose exit status was not expanded to a number
EchoLine(text) == Prompt \o text \o NL
ScreenRunning == EchoLine(hookToken) \o startMarkerText \o NL \o EchoLine(CmdText)
ScreenDone0 ==
    ScreenRunning \o <<"h","i">> \o NL \o endMarkerPrefix \o <<"0">> \o NL \o Prompt
ScreenDone127 ==
    ScreenRunning \o endMarkerPrefix \o <<"1","2","7">> \o NL \o Prompt
ScreenNoDigits ==
    ScreenRunning \o endMarkerPrefix \o <<"$","?">> \o NL \o Prompt
Screens == {ScreenRunning, ScreenDone0, ScreenDone127, ScreenNoDigits}

----------------------------------------------------------------------------
(* State.                                                                  *)

VARIABLES
    activeCommands, \* the Map: commandId -> CommandExecution
    detached,       \* record objects deleted from the Map that a suspended
                    \* checkCommandStatus still holds a reference to
    nextId,         \* the next identifier uuidv4 returns
    now,            \* the clock new Date() reads, in milliseconds
    calls,          \* caller -> the call it made last
    shellConfig,    \* the configured shell family (line 44)
    pane            \* the pane %0 and the shell in it, where a specification
                    \* follows them; elsewhere what a pane shows is an input

vars == <<activeCommands, detached, nextId, now, calls, shellConfig, pane>>

IdleCall == [op |-> "none", pc |-> "idle"]

InFlight(call) == call.pc \in {"query", "send", "capture", "captured"}

\* callers are interchangeable: a new call is made by the first caller that
\* has none in flight
CanBegin(c) ==
    /\ ~ InFlight(calls[c])
    /\ \A d \in Calls : d < c => InFlight(calls[d])

\* the calls suspended inside checkCommandStatus with a reference to record id
HoldsRef(call, id) ==
    /\ call.op = "checkCommandStatus"
    /\ call.pc \in {"capture", "captured"}
    /\ call.commandId = id

\* the objects of d that some call of cs still refers to
Referenced(d, cs) ==
    [id \in {i \in DOMAIN d : \E c \in Calls : HoldsRef(cs[c], i)} |-> d[id]]

\* a pane with a shell at its prompt: nothing shown, nothing typed, no
\* completion hook armed, no command running
IdlePane == [content |-> <<>>, typed |-> <<>>, armed |-> FALSE, running |-> Unset]

Init ==
    /\ activeCommands = <<>>
    /\ detached = <<>>
    /\ nextId = 1
    /\ now = 0
    /\ calls = [c \in Calls |-> IdleCall]
    /\ shellConfig = [type |-> ShellBash]
    /\ pane = IdlePane

----------------------------------------------------------------------------
(* The gateway commands executeTmux is called with.                        *)

Quoted(text) == [quoted |-> TRUE, text |-> text]
Bare(text) == [quoted |-> FALSE, text |-> text]

DisplayMessage(paneId) == [cmd |-> "display-message", target |-> paneId]
CapturePane(paneId, lines) == [cmd |-> "capture-pane", target |-> paneId, lines |-> lines]
SendKeys(paneId, keys) == [cmd |-> "send-keys", target |-> paneId, keys |-> keys]

\* the text a POSIX shell reads from the inside of a single-quoted word in
\* which every quote was written as '\'' : exec (line 62) runs the gateway
\* command line through a shell
RECURSIVE UnescapeQuotes(_)
UnescapeQuotes(s) ==
    IF s = <<>> THEN <<>>
    ELSE IF Len(s) >= 4 /\ SubSeq(s, 1, 4) = <<"'", "\\", "'", "'">>
    THEN <<"'">> \o UnescapeQuotes(SubSeq(s, 5, Len(s)))
    ELSE <<s[1]>> \o UnescapeQuotes(Tail(s))

\* the argument tmux receives for one word of the command line
ShellWord(word) == IF word.quoted THEN UnescapeQuotes(word.text) ELSE word.text

\* the keys tmux receives from one send-keys command
KeysReceived(g) == [i \in 1..Len(g.keys) |-> ShellWord(g.keys[i])]

\* SendPlan with the text of a noEnter call sent in one send-keys command
SendPlanWholeText(paneId, command, rawMode, noEnter) ==
    IF noEnter
    THEN << SendKeys(paneId, << Quoted(EscapeQuotes(command)) >>) >>
    ELSE IF rawMode
    THEN << SendKeys(paneId, << Quoted(EscapeQuotes(command)), Bare(Enter) >>) >>
    ELSE << SendKeys(paneId, << Quoted(hookToken), Bare(Enter),
                                Quoted(EscapeQuotes(command)), Bare(Enter) >>) >>

\* SendPlan with the command typed before the hook token in normal mode
SendPlanCommandFirst(paneId, command, rawMode, noEnter) ==
    IF noEnter
    THEN IF command \in specialKeys
         THEN << SendKeys(paneId, << Bare(command) >>) >>
         ELSE [i \in 1..Len(command) |->
                 SendKeys(paneId, << Quoted(EscapeQuotes(<<command[i]>>)) >>)]
    ELSE IF rawMode
    THEN << SendKeys(paneId, << Quoted(EscapeQuotes(command)), Bare(Enter) >>) >>
    ELSE << SendKeys(paneId, << Quoted(EscapeQuotes(command)), Bare(Enter),
                                Quoted(hookToken), Bare(Enter) >>) >>

\* the send-keys commands lines 290-316 issue, in order
SendPlan(paneId, command, rawMode, noEnter) ==
    IF noEnter
    THEN IF command \in specialKeys
         THEN << SendKeys(paneId, << Bare(command) >>) >>
         ELSE [i \in 1..Len(command) |->
                 SendKeys(paneId, << Quoted(EscapeQuotes(<<command[i]>>)) >>)]
    ELSE IF rawMode
    THEN << SendKeys(paneId, << Quoted(EscapeQuotes(command)), Bare(Enter) >>) >>
    ELSE << SendKeys(paneId, << Quoted(hookToken), Bare(Enter),
                                Quoted(EscapeQuotes(command)), Bare(Enter) >>) >>

\* the record lines 280-287 store
NewRecord(commandId, paneId, command, rawMode, noEnter, startTime) ==
    [ id        |-> commandId,
      paneId    |-> paneId,
      command   |-> command,
      status    |-> "pending",
      startTime |-> startTime,
      result    |-> Unset,
      exitCode  |-> Unset,
      rawMode   |-> (rawMode \/ noEnter) ]

\* IsShell without the test: every foreground process is accepted
IsShellAlways(currentCommand) == TRUE

\* the eligibility test of line 271
IsShell(currentCommand) == ToLowerCase(currentCommand) \in VALID_SHELLS

\* the send-keys commands a call has issued so far
SendsIssued(call) == SelectSeq(call.gw, LAMBDA g : g.cmd = "send-keys")

\* lines 276-318 up to the first await: the record is stored, then the first
\* send-keys is issued; a call with nothing to send returns at once
RegisterAndSend(c, call) ==
    LET plan == SendPlan(call.paneId, call.command, call.rawMode, call.noEnter)
        rec  == NewRecord(nextId, call.paneId, call.command, call.rawMode,
                          call.noEnter, now)
    IN /\ activeCommands' = (nextId :> rec) @@ activeCommands
       /\ nextId' = nextId + 1
       /\ calls' = [calls EXCEPT ![c] =
             IF plan = <<>>
             THEN [call EXCEPT !.pc = "returned", !.commandId = nextId,
                               !.ret = Some(nextId)]
             ELSE [call EXCEPT !.pc = "send", !.commandId = nextId,
                               !.gw = Append(call.gw, plan[1])]]

\* identifiers are available for every call that may still register a record
IdsLeft ==
    nextId + Cardinality({c \in Calls : calls[c].pc = "query"}) <= MaxCommands

\* executeCommand(paneId, command, rawMode, noEnter) up to its first await
ExecBegin(c, paneId, command, rawMode, noEnter) ==
    /\ CanBegin(c)
    /\ IdsLeft
    /\ LET call == [ op |-> "executeCommand", pc |-> "query", paneId |-> paneId,
                     command |-> command, rawMode |-> rawMode, noEnter |-> noEnter,
                     commandId |-> 0, currentCommand |-> <<>>, gw |-> <<>>,
                     ret |-> Unset, err |-> "" ]
       IN IF ~ rawMode /\ ~ noEnter
          THEN /\ calls' = [calls EXCEPT ![c] =
                               [call EXCEPT !.gw = << DisplayMessage(paneId) >>]]
               /\ UNCHANGED <<activeCommands, nextId>>
          ELSE RegisterAndSend(c, call)
    /\ UNCHANGED <<detached, now, shellConfig, pane>>

\* display-message answered with the pane's foreground process, which
\* executeTmux trims (line 63): lines 269-287 and the send of line 315
ExecQueryOk(c, proc) ==
    /\ calls[c].op = "executeCommand"
    /\ calls[c].pc = "query"
    /\ LET currentCommand == Trim(proc)
       IN IF ~ IsShell(currentCommand)
          THEN /\ calls' = [calls EXCEPT ![c].pc = "threw",
                                         ![c].err = "IneligiblePane",
                                         ![c].currentCommand = currentCommand]
               /\ UNCHANGED <<activeCommands, nextId>>
          ELSE RegisterAndSend(c, [calls[c] EXCEPT !.currentCommand = currentCommand])
    /\ UNCHANGED <<detached, now, shellConfig, pane>>

\* display-message failed: executeTmux throws (line 65), nothing was stored
ExecQueryFail(c) ==
    /\ calls[c].op = "executeCommand"
    /\ calls[c].pc = "query"
    /\ calls' = [calls EXCEPT ![c].pc = "threw", ![c].err = "GatewayFailure"]
    /\ UNCHANGED <<activeCommands, detached, nextId, now, shellConfig, pane>>

\* the call after a send-keys succeeded: the next character is sent (line
\* 303), or the identifier is returned (line 318)
AfterSendOk(call) ==
    LET plan == SendPlan(call.paneId, call.command, call.rawMode, call.noEnter)
        done == Len(SendsIssued(call))
    IN IF done < Len(plan)
       THEN [call EXCEPT !.gw = Append(call.gw, plan[done + 1])]
       ELSE [call EXCEPT !.pc = "returned", !.ret = Some(call.commandId)]

\* a send-keys succeeded
ExecSendOk(c) ==
    /\ calls[c].op = "executeCommand"
    /\ calls[c].pc = "send"
    /\ calls' = [calls EXCEPT ![c] = AfterSendOk(calls[c])]
    /\ UNCHANGED <<activeCommands, detached, nextId, now, shellConfig, pane>>

\* a send-keys failed: executeTmux throws, the record stored before stays
ExecSendFail(c) ==
    /\ calls[c].op = "executeCommand"
    /\ calls[c].pc = "send"
    /\ calls' = [calls EXCEPT ![c].pc = "threw", ![c].err = "GatewayFailure"]
    /\ UNCHANGED <<activeCommands, detached, nextId, now, shellConfig, pane>>

----------------------------------------------------------------------------
(* checkCommandStatus.                                                     *)

\* the lines capturePaneContent is asked for (line 327)
CaptureLines == 1000

\* the record object with identifier id: in the Map, or deleted from it while
\* a suspended call still holds it
Object(id) == IF id \in DOMAIN activeCommands THEN activeCommands[id] ELSE detached[id]

\* CheckBegin without the early return of line 325: a record that is already
\* terminal is captured and parsed again
CheckBeginNoEarlyReturn(c, commandId) ==
    /\ CanBegin(c)
    /\ LET call == [ op |-> "checkCommandStatus", pc |-> "returned",
                     commandId |-> commandId, content |-> <<>>, gw |-> <<>>,
                     ret |-> Unset, err |-> "" ]
       IN calls' = [calls EXCEPT ![c] =
             IF commandId \notin DOMAIN activeCommands
             THEN call
             ELSE [call EXCEPT !.pc = "capture",
                     !.gw = << CapturePane(activeCommands[commandId].paneId,
                                           CaptureLines) >>]]
    /\ UNCHANGED <<activeCommands, detached, nextId, now, shellConfig, pane>>

\* checkCommandStatus(commandId) up to its first await: lines 322-327.  What
\* it returns is the record object itself, not a copy: ret holds the
\* identifier of the object returned, Unset for null
CheckBegin(c, commandId) ==
    /\ CanBegin(c)
    /\ LET call == [ op |-> "checkCommandStatus", pc |-> "returned",
                     commandId |-> commandId, content |-> <<>>, gw |-> <<>>,
                     ret |-> Unset, err |-> "" ]
       IN calls' = [calls EXCEPT ![c] =
             IF commandId \notin DOMAIN activeCommands
             THEN call
             ELSE IF activeCommands[commandId].status # "pending"
             THEN [call EXCEPT !.ret = Some(commandId)]
             ELSE [call EXCEPT !.pc = "capture",
                     !.gw = << CapturePane(activeCommands[commandId].paneId,
                                           CaptureLines) >>]]
    /\ UNCHANGED <<activeCommands, detached, nextId, now, shellConfig, pane>>

\* the capture-pane subprocess prints what the pane shows at that moment;
\* executeTmux trims it (line 63)
CheckCaptureRun(c, screen) ==
    /\ calls[c].op = "checkCommandStatus"
    /\ calls[c].pc = "capture"
    /\ calls' = [calls EXCEPT ![c].pc = "captured", ![c].content = Trim(screen)]
    /\ UNCHANGED <<activeCommands, detached, nextId, now, shellConfig, pane>>

\* CheckCaptureFail with the failure recorded on the record as an error
CheckCaptureFailMarksError(c) ==
    /\ calls[c].op = "checkCommandStatus"
    /\ calls[c].pc = "capture"
    /\ calls' = [calls EXCEPT ![c].pc = "threw", ![c].err = "GatewayFailure"]
    /\ activeCommands' =
          IF calls[c].commandId \in DOMAIN activeCommands
          THEN [activeCommands EXCEPT ![calls[c].commandId].status = "error"]
          ELSE activeCommands
    /\ detached' = Referenced(detached, calls')
    /\ UNCHANGED <<nextId, now, shellConfig, pane>>

\* the capture failed: executeTmux throws (line 65) out of line 327
CheckCaptureFail(c) ==
    /\ calls[c].op = "checkCommandStatus"
    /\ calls[c].pc = "capture"
    /\ calls' = [calls EXCEPT ![c].pc = "threw", ![c].err = "GatewayFailure"]
    /\ detached' = Referenced(detached, calls')
    /\ UNCHANGED <<activeCommands, nextId, now, shellConfig, pane>>

\* the call resumes with the captured content: lines 329-364
CheckResume(c) ==
    /\ calls[c].op = "checkCommandStatus"
    /\ calls[c].pc = "captured"
    /\ LET id      == calls[c].commandId
           command == Object(id)
           after   == AfterCapture(command, calls[c].content)
           inMap   == id \in DOMAIN activeCommands \/ SetsInMap(command, calls[c].content)
       IN /\ calls' = [calls EXCEPT ![c].pc = "returned", ![c].ret = Some(id)]
          /\ activeCommands' =
                IF inMap THEN (id :> after) @@ activeCommands ELSE activeCommands
          /\ detached' =
                Referenced(IF inMap
                           THEN [i \in DOMAIN detached \ {id} |-> detached[i]]
                           ELSE (id :> after) @@ detached,
                           calls')
    /\ UNCHANGED <<nextId, now, shellConfig, pane>>

----------------------------------------------------------------------------
(* The synchronous operations.                                             *)

\* getCommand(commandId): the record, or Unset for null (line 369)
getCommand(commandId) ==
    IF commandId \in DOMAIN activeCommands THEN Some(activeCommands[commandId]) ELSE Unset

\* getActiveCommandIds() (line 374)
getActiveCommandIds == DOMAIN activeCommands

\* a call of getCommand or getActiveCommandIds: a lookup that changes nothing
Lookup ==
    /\ getActiveCommandIds \subseteq Ids
    /\ \A id \in Ids : Len(getCommand(id)) <= 1
    /\ UNCHANGED vars

\* Expired with >= for >: a record exactly maxAgeMinutes old is removed too
ExpiredAtThreshold(command, maxAgeMinutes) ==
    /\ command.status # "pending"
    /\ now - command.startTime >= maxAgeMinutes * MsPerMinute

\* Expired without the test of the status: pending records age out too
ExpiredWhateverStatus(command, maxAgeMinutes) ==
    now - command.startTime > maxAgeMinutes * MsPerMinute

\* the age of a record in minutes exceeds maxAgeMinutes (lines 382-384);
\* the division is kept exact by multiplying it out
Expired(command, maxAgeMinutes) ==
    /\ command.status # "pending"
    /\ now - command.startTime > maxAgeMinutes * MsPerMinute

\* cleanupOldCommands(maxAgeMinutes)
cleanupOldCommands(maxAgeMinutes) ==
    LET gone == {id \in DOMAIN activeCommands : Expired(activeCommands[id], maxAgeMinutes)}
    IN /\ activeCommands' = [id \in DOMAIN activeCommands \ gone |-> activeCommands[id]]
       /\ detached' = Referenced([id \in gone |-> activeCommands[id]] @@ detached, calls)
       /\ UNCHANGED <<nextId, now, calls, shellConfig, pane>>

----------------------------------------------------------------------------
(* The shell adapter: setShellConfig and getEndMarkerText.                 *)

\* the strings setShellConfig is called with: the three families, a shell
\* outside them, a family in other case, and the empty string
ShellTypes == validShells \cup { <<"s","h">>, <<"F","i","s","h">>, <<>> }

\* what a caller keeps of a setShellConfig call: it returns at once
ConfigCall(config) == [op |-> "setShellConfig", pc |-> "returned", config |-> config]

\* setShellConfig that leaves the configuration alone on an unknown type
setShellConfigKeepsUnknown(c, config) ==
    /\ CanBegin(c)
    /\ shellConfig' = IF config.type \in validShells
                      THEN [type |-> config.type]
                      ELSE shellConfig
    /\ calls' = [calls EXCEPT ![c] = ConfigCall(config)]
    /\ UNCHANGED <<activeCommands, detached, nextId, now, pane>>

\* setShellConfig(config) (lines 46-55)
setShellConfig(c, config) ==
    /\ CanBegin(c)
    /\ shellConfig' = IF config.type \in validShells
                      THEN [type |-> config.type]
                      ELSE [type |-> ShellBash]
    /\ calls' = [calls EXCEPT ![c] = ConfigCall(config)]
    /\ UNCHANGED <<activeCommands, detached, nextId, now, pane>>

\* getEndMarkerText() (lines 390-394)
getEndMarkerText ==
    IF shellConfig.type = ShellFish
    THEN endMarkerPrefix \o <<"$","s","t","a","t","u","s">>
    ELSE endMarkerPrefix \o <<"$","?">>

----------------------------------------------------------------------------
(* The environment: the clock.  What the panes show and run is an input of *)
(* the gateway replies (ExecQueryOk, CheckCaptureRun).                     *)

Tick ==
    /\ now < MaxTicks * MsPerMinute
    /\ now' = now + MsPerMinute
    /\ UNCHANGED <<activeCommands, detached, nextId, calls, shellConfig, pane>>

----------------------------------------------------------------------------
(* The specification: any interleaving of the callers' calls.              *)

Next ==
    \/ \E c \in Calls, p \in Panes, cmd \in Commands, raw \in BOOLEAN, ne \in BOOLEAN :
          ExecBegin(c, p, cmd, raw, ne)
    \/ \E c \in Calls, proc \in Procs : ExecQueryOk(c, proc)
    \/ \E c \in Calls : ExecQueryFail(c)
    \/ \E c \in Calls : ExecSendOk(c)
    \/ \E c \in Calls : ExecSendFail(c)
    \/ \E c \in Calls, id \in Ids : CheckBegin(c, id)
    \/ \E c \in Calls, screen \in Screens : CheckCaptureRun(c, screen)
    \/ \E c \in Calls : CheckCaptureFail(c)
    \/ \E c \in Calls : CheckResume(c)
    \/ Lookup
    \/ \E m \in MaxAges : cleanupOldCommands(m)
    \/ Tick

Spec == Init /\ [][Next]_vars

----------------------------------------------------------------------------
(* The same operations called one after the other: a call is made only     *)
(* when every earlier call has returned or thrown.                         *)

Quiet == \A c \in Calls : ~ InFlight(calls[c])

NextSeq ==
    \/ /\ Quiet
       /\ \E c \in Calls, p \in Panes, cmd \in Commands, raw \in BOOLEAN, ne \in BOOLEAN :
             ExecBegin(c, p, cmd, raw, ne)
    \/ \E c \in Calls, proc \in Procs : ExecQueryOk(c, proc)
    \/ \E c \in Calls : ExecQueryFail(c)
    \/ \E c \in Calls : ExecSendOk(c)
    \/ \E c \in Calls : ExecSendFail(c)
    \/ /\ Quiet
       /\ \E c \in Calls, id \in Ids : CheckBegin(c, id)
    \/ \E c \in Calls, screen \in Screens : CheckCaptureRun(c, screen)
    \/ \E c \in Calls : CheckCaptureFail(c)
    \/ \E c \in Calls : CheckResume(c)
    \/ Quiet /\ Lookup
    \/ /\ Quiet
       /\ \E m \in MaxAges : cleanupOldCommands(m)
    \/ Tick

SpecSeq == Init /\ [][NextSeq]_vars

----------------------------------------------------------------------------
(* Normal-mode commands that never finish: no capture shows an end marker  *)
(* after the last start marker.  A pane shows nothing, a                   *)
(* command running after its start marker, or the complete markers of an   *)
(* earlier command followed by the start marker of one still running.      *)

ScreenBlank == Prompt
ScreenStale == ScreenDone0 \o NL \o ScreenRunning
ScreensNoEnd == {ScreenBlank, ScreenRunning, ScreenStale}

NextNoEnd ==
    \/ \E c \in Calls, p \in Panes, cmd \in Commands :
          ExecBegin(c, p, cmd, FALSE, FALSE)
    \/ \E c \in Calls, proc \in Procs : ExecQueryOk(c, proc)
    \/ \E c \in Calls : ExecQueryFail(c)
    \/ \E c \in Calls : ExecSendOk(c)
    \/ \E c \in Calls : ExecSendFail(c)
    \/ \E c \in Calls, id \in Ids : CheckBegin(c, id)
    \/ \E c \in Calls, screen \in ScreensNoEnd : CheckCaptureRun(c, screen)
    \/ \E c \in Calls : CheckCaptureFail(c)
    \/ \E c \in Calls : CheckResume(c)
    \/ Lookup
    \/ \E m \in MaxAges : cleanupOldCommands(m)
    \/ Tick

SpecNoEnd == Init /\ [][NextNoEnd]_vars

----------------------------------------------------------------------------
(* Polling: normal-mode submissions and status checks, where every gateway *)
(* command is answered in the end (the promise of exec settles, line 62)   *)
(* and every call whose await has settled is resumed by the event loop.    *)

\* the gateway answers the command caller c is waiting for
GatewayAnswers(c) ==
    \/ \E proc \in Procs : ExecQueryOk(c, proc)
    \/ ExecQueryFail(c)
    \/ ExecSendOk(c)
    \/ ExecSendFail(c)
    \/ \E screen \in Screens : CheckCaptureRun(c, screen)
    \/ CheckCaptureFail(c)

\* the event loop resumes caller c after the await of line 327: the
\* CheckResume(c) steps, told by what they do to the call
EventLoopResumes(c) ==
    /\ calls[c].op = "checkCommandStatus"
    /\ calls[c].pc = "captured"
    /\ calls' = [calls EXCEPT ![c].pc = "returned",
                              ![c].ret = Some(calls[c].commandId)]

NextPoll ==
    \/ \E c \in Calls, p \in Panes, cmd \in Commands :
          ExecBegin(c, p, cmd, FALSE, FALSE)
    \/ \E c \in Calls : GatewayAnswers(c)
    \/ \E c \in Calls, id \in Ids : CheckBegin(c, id)
    \/ \E c \in Calls : CheckResume(c)
    \/ \E m \in MaxAges : cleanupOldCommands(m)
    \/ Tick

SpecPoll ==
    /\ Init
    /\ [][NextPoll]_vars
    /\ \A c \in Calls : WF_vars(GatewayAnswers(c))
    /\ \A c \in Calls : WF_calls(EventLoopResumes(c))

----------------------------------------------------------------------------
(* The pane followed: normal-mode commands are typed into pane %0, the     *)
(* shell in it reads them line by line, and the gateway answers from what  *)
(* the pane runs and shows.  The hook token arms the completion hook and   *)
(* prints the start marker; when the next command finishes, the armed hook *)
(* prints the end marker with the exit status (lines 311-313).             *)

\* a command that fails: no output, exit status 127
CmdFail == <<"x">>
PaneCommands == {CmdText, CmdFail}

\* what a command prints and the exit status it ends with
OutputOf(command) == IF command = CmdText THEN <<"h","i">> \o NL ELSE <<>>
ExitDigits(command) == IF command = CmdText THEN <<"0">> ELSE <<"1","2","7">>

RECURSIVE Flatten(_)
Flatten(ss) == IF ss = <<>> THEN <<>> ELSE Head(ss) \o Flatten(Tail(ss))

\* the lines a send-keys command types: each key followed by the Enter key
LinesTyped(keys) ==
    Flatten([i \in 1..Len(keys) |->
               IF i < Len(keys) /\ keys[i + 1] = Enter /\ keys[i] # Enter
               THEN << keys[i] >> ELSE <<>>])

\* the send-keys command caller c awaits is run by tmux: its keys reach the
\* pane, and the call goes on as after any send-keys that succeeded
ExecSendTyped(c) ==
    /\ calls[c].op = "executeCommand"
    /\ calls[c].pc = "send"
    /\ LET sends == SendsIssued(calls[c])
       IN pane' = [pane EXCEPT !.typed =
                     pane.typed \o LinesTyped(KeysReceived(sends[Len(sends)]))]
    /\ calls' = [calls EXCEPT ![c] = AfterSendOk(calls[c])]
    /\ UNCHANGED <<activeCommands, detached, nextId, now, shellConfig>>

\* the shell at its prompt reads the next line typed: the hook token arms
\* the hook, which prints the start marker; any other line is run
ShellReads ==
    /\ pane.running = Unset
    /\ pane.typed # <<>>
    /\ LET line == Head(pane.typed)
       IN pane' =
            IF line = hookToken
            THEN [pane EXCEPT !.typed = Tail(pane.typed),
                              !.armed = TRUE,
                              !.content = pane.content \o EchoLine(line)
                                             \o startMarkerText \o NL]
            ELSE [pane EXCEPT !.typed = Tail(pane.typed),
                              !.running = Some(line),
                              !.content = pane.content \o EchoLine(line)]
    /\ UNCHANGED <<activeCommands, detached, nextId, now, calls, shellConfig>>

\* the running command finishes: its output is on the pane and the armed
\* hook prints the end marker with the exit status, once
ShellFinishes ==
    /\ pane.running # Unset
    /\ pane' = [pane EXCEPT
                  !.running = Unset,
                  !.armed = FALSE,
                  !.content = pane.content \o OutputOf(pane.running[1])
                                 \o (IF pane.armed
                                     THEN endMarkerPrefix
                                             \o ExitDigits(pane.running[1]) \o NL
                                     ELSE <<>>)]
    /\ UNCHANGED <<activeCommands, detached, nextId, now, calls, shellConfig>>

\* #{pane_current_command}: the shell, or the command it runs
PaneCurrentCommand == IF pane.running = Unset THEN ProcBash ELSE pane.running[1]

\* what capture-pane prints: the content, with the prompt of an idle shell
PaneShows == pane.content \o (IF pane.running = Unset THEN Prompt ELSE <<>>)

\* display-message and capture-pane answered from the pane
PaneQueryOk(c) == ExecQueryOk(c, PaneCurrentCommand)
PaneCapture(c) == CheckCaptureRun(c, PaneShows)

NextPane ==
    \/ /\ Quiet
       /\ \E c \in Calls, p \in Panes, cmd \in PaneCommands :
             ExecBegin(c, p, cmd, FALSE, FALSE)
    \/ \E c \in Calls : PaneQueryOk(c)
    \/ \E c \in Calls : ExecSendTyped(c)
    \/ /\ Quiet
       /\ \E c \in Calls, id \in Ids : CheckBegin(c, id)
    \/ \E c \in Calls : PaneCapture(c)
    \/ \E c \in Calls : CheckResume(c)
    \/ ShellReads
    \/ ShellFinishes

SpecPane == Init /\ [][NextPane]_vars

----------------------------------------------------------------------------
(* The dispatcher on its own: executeCommand in its four modes, called one *)
(* after the other with a named key, a two-character text, the empty text  *)
(* and a shell command, and setShellConfig.                                *)

KeyUp == <<"U","p">>
TextAb == <<"a","b">>
SendCommands == {KeyUp, TextAb, <<>>, CmdText}

NextSend ==
    \/ /\ Quiet
       /\ \E c \in Calls, p \in Panes, cmd \in SendCommands,
             raw \in BOOLEAN, ne \in BOOLEAN :
             ExecBegin(c, p, cmd, raw, ne)
    \/ \E c \in Calls, proc \in Procs : ExecQueryOk(c, proc)
    \/ \E c \in Calls : ExecQueryFail(c)
    \/ \E c \in Calls : ExecSendOk(c)
    \/ \E c \in Calls : ExecSendFail(c)
    \/ /\ Quiet
       /\ \E c \in Calls, t \in ShellTypes : setShellConfig(c, [type |-> t])
    \/ Quiet /\ Lookup

SpecSend == Init /\ [][NextSend]_vars

----------------------------------------------------------------------------
(* The marker parser on its own: one pending normal-mode record, and a     *)
(* checkCommandStatus call suspended with a captured text that is any      *)
(* concatenation of at most MaxPieces pieces: the two markers, a line      *)
(* break, and the characters 0 and 1, which stand for an exit status after *)
(* an end marker and for ordinary output elsewhere.                        *)

MaxPieces == 6
Pieces == <<startMarkerText, endMarkerPrefix, <<"0">>, <<"1">>, NL>>

RECURSIVE Concat(_)
Concat(ps) == IF ps = <<>> THEN <<>> ELSE Pieces[Head(ps)] \o Concat(Tail(ps))

PaneTexts ==
    {Concat(ps) : ps \in UNION {[1..n -> 1..Len(Pieces)] : n \in 0..MaxPieces}}

InitParse ==
    /\ activeCommands = (1 :> NewRecord(1, "%0", CmdText, FALSE, FALSE, 0))
    /\ detached = <<>>
    /\ nextId = 2
    /\ now = 0
    /\ shellConfig = [type |-> ShellBash]
    /\ pane = IdlePane
    /\ \E text \in PaneTexts :
          calls = [c \in Calls |->
                     IF c = 1
                     THEN [ op |-> "checkCommandStatus", pc |-> "captured",
                            commandId |-> 1, content |-> Trim(text),
                            gw |-> << CapturePane("%0", CaptureLines) >>,
                            ret |-> Unset, err |-> "" ]
                     ELSE IdleCall]

NextParse == \E c \in Calls : CheckResume(c)

SpecParse == InitParse /\ [][NextParse]_vars

----------------------------------------------------------------------------
(* Properties.                                                             *)

Terminal(command) == command.status \in {"completed", "error"}

\* caller c made a checkCommandStatus call in this step
BeganCheck(c) ==
    /\ ~ InFlight(calls[c])
    /\ calls'[c] # calls[c]
    /\ calls'[c].op = "checkCommandStatus"

\* caller c has a finished checkCommandStatus(id) that returned the record
\* without capturing the pane
ReturnedWithoutCapture(c, id) ==
    /\ calls[c].op = "checkCommandStatus"
    /\ calls[c].pc = "returned"
    /\ calls[c].commandId = id
    /\ calls[c].ret = Some(id)
    /\ calls[c].gw = <<>>

\* C1: when every call runs to completion before the next begins, the status
\* of a tracked record changes only from pending to completed or from pending
\* to error: a completed or error record never becomes pending again and
\* never takes the other terminal value.
C1_StatusMonotonic ==
    [][\A id \in DOMAIN activeCommands \cap DOMAIN activeCommands' :
          activeCommands'[id].status # activeCommands[id].status
          => /\ activeCommands[id].status = "pending"
             /\ activeCommands'[id].status \in {"completed", "error"}]_vars

\* C1 witness: a record is in error and a later status check of it has
\* returned it as it was.
C1_Witness ==
    \E c \in Calls, id \in DOMAIN activeCommands :
       /\ ReturnedWithoutCapture(c, id)
       /\ activeCommands[id].status = "error"

\* C2: with status checks overlapping, a record that is completed or error
\* keeps its status, exitCode and result in every step.
C2_TerminalKept ==
    [][\A id \in DOMAIN activeCommands \cap DOMAIN activeCommands' :
          Terminal(activeCommands[id])
          => /\ activeCommands'[id].status = activeCommands[id].status
             /\ activeCommands'[id].exitCode = activeCommands[id].exitCode
             /\ activeCommands'[id].result = activeCommands[id].result]_vars

\* C3: a status check of a record that is already completed or error returns
\* that record at once, issues no gateway command and changes nothing in the
\* registry.
C3_TerminalCheckIsNoOp ==
    [][\A c \in Calls :
          /\ BeganCheck(c)
          /\ calls'[c].commandId \in DOMAIN activeCommands
          /\ Terminal(activeCommands[calls'[c].commandId])
          => /\ calls'[c].pc = "returned"
             /\ calls'[c].ret = Some(calls'[c].commandId)
             /\ calls'[c].gw = <<>>
             /\ activeCommands' = activeCommands
             /\ detached' = detached]_vars

\* C3 witness: a status check of a completed record has returned it without
\* a capture.
C3_Witness ==
    \E c \in Calls, id \in DOMAIN activeCommands :
       /\ ReturnedWithoutCapture(c, id)
       /\ activeCommands[id].status = "completed"
       /\ activeCommands[id].exitCode = Some(0)

\* C4: cleanupOldCommands(maxAgeMinutes) keeps every pending record, removes
\* every completed or error record older than maxAgeMinutes, and keeps every
\* completed or error record of at most that age, each kept record unchanged.
C4_CleanupByStatusAndAge ==
    [][\A m \in MaxAges :
          cleanupOldCommands(m)
          => \A id \in DOMAIN activeCommands :
                LET command == activeCommands[id]
                    older   == now - command.startTime > m * MsPerMinute
                    kept    == /\ id \in DOMAIN activeCommands'
                               /\ activeCommands'[id] = command
                IN /\ command.status = "pending" => kept
                   /\ Terminal(command) /\ older => id \notin DOMAIN activeCommands'
                   /\ Terminal(command) /\ ~ older => kept]_vars

\* C4 witness: a record has been removed while a pending record that is a
\* minute old and a terminal record are still tracked.
C4_Witness ==
    /\ \E id \in 1..(nextId - 1) : id \notin DOMAIN activeCommands
    /\ \E id \in DOMAIN activeCommands :
          /\ activeCommands[id].status = "pending"
          /\ now - activeCommands[id].startTime = MsPerMinute

\* C5: a record created with rawMode or noEnter has its rawMode flag set, is
\* pending with no exitCode in every state, and once a status check of it
\* has returned its result is the fixed advisory text.
C5_RawModeStaysPending ==
    /\ \A c \in Calls :
          /\ calls[c].op = "executeCommand"
          /\ calls[c].rawMode \/ calls[c].noEnter
          /\ calls[c].commandId \in DOMAIN activeCommands
          => activeCommands[calls[c].commandId].rawMode
    /\ \A id \in DOMAIN activeCommands :
          activeCommands[id].rawMode
          => /\ activeCommands[id].status = "pending"
             /\ activeCommands[id].exitCode = Unset
             /\ activeCommands[id].result \in {Unset, Some(RawModeAdvice)}
             /\ \A c \in Calls :
                   /\ calls[c].op = "checkCommandStatus"
                   /\ calls[c].pc = "returned"
                   /\ calls[c].ret = Some(id)
                   => activeCommands[id].result = Some(RawModeAdvice)

\* C5 witness: a status check of a rawMode record has returned after a
\* capture that showed a complete marker pair.
C5_Witness ==
    \E c \in Calls, id \in DOMAIN activeCommands :
       /\ activeCommands[id].rawMode
       /\ calls[c].op = "checkCommandStatus"
       /\ calls[c].pc = "returned"
       /\ calls[c].ret = Some(id)
       /\ calls[c].content = Trim(ScreenDone0)

\* C6 as claimed: every pending record has neither an exitCode nor a result.
C6_PendingHasNoResult ==
    \A id \in DOMAIN activeCommands :
       activeCommands[id].status = "pending"
       => /\ activeCommands[id].exitCode = Unset
          /\ activeCommands[id].result = Unset

\* C6 as amended: every pending record has no exitCode, and its result is
\* unset or the fixed advisory text of its mode, never output of a command.
C6_PendingResultIsAdvisory ==
    \A id \in DOMAIN activeCommands :
       activeCommands[id].status = "pending"
       => /\ activeCommands[id].exitCode = Unset
          /\ activeCommands[id].result \in
                {Unset, Some(IF activeCommands[id].rawMode
                             THEN RawModeAdvice ELSE NotCapturedAdvice)}

\* C6 witness: a status check of a normal-mode record captured a marker
\* without digits after an earlier check had found no end marker; the record
\* is pending and holds the advisory text.
C6_Witness ==
    \E c \in Calls, id \in DOMAIN activeCommands :
       /\ calls[c].op = "checkCommandStatus"
       /\ calls[c].pc = "returned"
       /\ calls[c].ret = Some(id)
       /\ calls[c].content = Trim(ScreenNoDigits)
       /\ ~ activeCommands[id].rawMode
       /\ activeCommands[id].status = "pending"
       /\ activeCommands[id].result = Some(NotCapturedAdvice)

\* the number a string of decimal digits writes
RECURSIVE Pow10(_)
Pow10(n) == IF n = 0 THEN 1 ELSE 10 * Pow10(n - 1)
RECURSIVE DecimalSum(_, _)
DecimalSum(ds, i) ==
    IF i > Len(ds) THEN 0
    ELSE DigitValue(ds[i]) * Pow10(Len(ds) - i) + DecimalSum(ds, i + 1)

\* the decimal digits that follow the last end-marker prefix of a text
DigitsAfterLastEndMarker(content) ==
    LeadingDigits(SubstringFrom(content,
        LastIndexOf(content, endMarkerPrefix) + Len(endMarkerPrefix)))

\* caller c resumed its status check in this step and the record went from
\* pending to completed or error
Resolved(c) ==
    /\ calls[c].op = "checkCommandStatus"
    /\ calls[c].pc = "captured"
    /\ calls'[c].pc = "returned"
    /\ calls[c].commandId \in DOMAIN activeCommands \cap DOMAIN activeCommands'
    /\ activeCommands[calls[c].commandId].status = "pending"
    /\ Terminal(activeCommands'[calls[c].commandId])

\* C7: in every state a record is completed exactly when its exitCode is 0,
\* error exactly when its exitCode is set and not 0, pending exactly when its
\* exitCode is unset; and a check that resolves a record sets exitCode to the
\* number written by the digits after the last end-marker prefix captured.
C7_StatusMatchesExitCode ==
    /\ [](\A id \in DOMAIN activeCommands :
            LET command == activeCommands[id]
            IN /\ command.status \in {"pending", "completed", "error"}
               /\ command.status = "completed" <=> command.exitCode = Some(0)
               /\ command.status = "error"
                     <=> (command.exitCode # Unset /\ command.exitCode # Some(0))
               /\ command.status = "pending" <=> command.exitCode = Unset)
    /\ [][\A c \in Calls :
            Resolved(c)
            => LET digits == DigitsAfterLastEndMarker(calls[c].content)
               IN /\ digits # <<>>
                  /\ activeCommands'[calls[c].commandId].exitCode
                        = Some(DecimalSum(digits, 1))]_vars

\* C7 witness: a check whose capture ended with exit status 127 has returned
\* and the record is in error with exitCode 127.
C7_Witness ==
    \E c \in Calls, id \in DOMAIN activeCommands :
       /\ calls[c].op = "checkCommandStatus"
       /\ calls[c].pc = "returned"
       /\ calls[c].ret = Some(id)
       /\ calls[c].content = Trim(ScreenDone127)
       /\ activeCommands[id].status = "error"
       /\ activeCommands[id].exitCode = Some(127)

SetMax(S) == CHOOSE i \in S : \A j \in S : i >= j
SetMin(S) == CHOOSE i \in S : \A j \in S : i <= j

\* the decimal digits that follow the end-marker prefix at position e
DigitsAt(content, e) ==
    LeadingDigits(SubstringFrom(content, e + Len(endMarkerPrefix)))

\* the text holds exactly two start markers and two end markers, in the order
\* start, end, start, end, each end marker with its digits
TwoPairs(content) ==
    LET starts == Occurrences(content, startMarkerText)
        ends   == Occurrences(content, endMarkerPrefix)
    IN /\ Cardinality(starts) = 2
       /\ Cardinality(ends) = 2
       /\ SetMin(starts) < SetMin(ends)
       /\ SetMin(ends) < SetMax(starts)
       /\ SetMax(starts) < SetMax(ends)
       /\ DigitsAt(content, SetMin(ends)) # <<>>
       /\ DigitsAt(content, SetMax(ends)) # <<>>

\* the text between the end of the last start marker and the last end marker
LastSpan(content) ==
    SubSeq(content,
           SetMax(Occurrences(content, startMarkerText)) + Len(startMarkerText) + 1,
           SetMax(Occurrences(content, endMarkerPrefix)))

\* t is a run of consecutive characters of s
IsPartOf(t, s) == \E i \in 0..Len(s) : OccursAt(s, t, i)

\* caller c resumed its suspended status check in this step
Resumed(c) ==
    /\ calls[c].op = "checkCommandStatus"
    /\ calls[c].pc = "captured"
    /\ calls'[c].pc = "returned"

\* C8: a capture holding two complete marker pairs resolves a pending
\* normal-mode record against the second pair: exitCode is the number after
\* the second end marker and result is taken from the text between the second
\* start marker and the second end marker.
C8_SecondPairWins ==
    [][\A c \in Calls :
          Resumed(c) /\ TwoPairs(calls[c].content)
          => LET content == calls[c].content
                 command == activeCommands'[calls[c].commandId]
             IN /\ Terminal(command)
                /\ command.exitCode
                      = Some(DecimalSum(DigitsAt(content,
                               SetMax(Occurrences(content, endMarkerPrefix))), 1))
                /\ command.result # Unset
                /\ IsPartOf(command.result[1], LastSpan(content))]_vars

\* C8 witness: a check has resolved the record from a capture with two pairs
\* whose exit statuses differ, the first 0 and the second not.
C8_Witness ==
    \E c \in Calls :
       /\ calls[c].op = "checkCommandStatus"
       /\ calls[c].pc = "returned"
       /\ TwoPairs(calls[c].content)
       /\ DigitsAt(calls[c].content, SetMin(Occurrences(calls[c].content, endMarkerPrefix)))
             # DigitsAt(calls[c].content, SetMax(Occurrences(calls[c].content, endMarkerPrefix)))
       /\ DigitsAt(calls[c].content, SetMin(Occurrences(calls[c].content, endMarkerPrefix)))
             = <<"0">>
       /\ activeCommands[calls[c].commandId].status = "error"

\* the output the claim describes: the span trimmed, its first line
\* discarded, the remainder trimmed; nothing remains of a single line
OutputWithoutFirstLine(span) ==
    LET trimmed == Trim(span)
        nl      == IndexOf(trimmed, NL)
    IN IF nl = -1 THEN <<>> ELSE Trim(SubstringFrom(trimmed, nl + 1))

\* C9: a check that resolves a record sets result to the text between the
\* last start marker and the last end marker, trimmed, without its first
\* line, trimmed again; the empty text when the span is a single line.
C9_FirstLineDiscarded ==
    [][\A c \in Calls :
          Resolved(c)
          => activeCommands'[calls[c].commandId].result
                = Some(OutputWithoutFirstLine(LastSpan(calls[c].content)))]_vars

\* C10: a normal-mode executeCommand asks for the pane's foreground process
\* first; it fails as IneligiblePane only on a process outside the allow-list
\* and then has sent no keys and stored no record, and it sends keys only
\* after an allow-listed answer.  With rawMode or noEnter no query is made,
\* the call never fails as IneligiblePane, and the keys are sent at once.
C10_EligibilityBeforeSend ==
    \A c \in Calls :
       calls[c].op = "executeCommand"
       => LET call   == calls[c]
              normal == ~ call.rawMode /\ ~ call.noEnter
              sends  == SendsIssued(call)
              listed == ToLowerCase(call.currentCommand) \in VALID_SHELLS
          IN /\ normal => call.gw # <<>> /\ call.gw[1] = DisplayMessage(call.paneId)
             /\ call.err = "IneligiblePane"
                   => /\ normal
                      /\ ~ listed
                      /\ sends = <<>>
                      /\ call.commandId = 0
             /\ normal /\ sends # <<>> => listed
             /\ normal /\ call.pc \in {"send", "returned"} => listed
             /\ ~ normal
                   => /\ \A i \in 1..Len(call.gw) : call.gw[i].cmd = "send-keys"
                      /\ call.err # "IneligiblePane"
                      /\ sends # <<>>

\* C10 witness: a normal-mode call on a pane running vim has failed as
\* IneligiblePane, and another call in rawMode has sent its keys.
C10_Witness ==
    \E c, d \in Calls :
       /\ calls[c].op = "executeCommand"
       /\ calls[c].err = "IneligiblePane"
       /\ calls[c].currentCommand = ProcVim
       /\ calls[d].op = "executeCommand"
       /\ calls[d].rawMode
       /\ calls[d].pc = "returned"

\* the keys tmux received from the i-th send-keys command of a call
KeysOf(call, i) == KeysReceived(SendsIssued(call)[i])

\* C11: an executeCommand with noEnter makes no query; for a named special
\* key it sends one send-keys command whose only key is that name; for any
\* other text it sends one send-keys command per character, each carrying
\* that character, in the order of the text, and no Enter key; it never
\* sends the hook token or a marker.
C11_NoEnterKeys ==
    \A c \in Calls :
       calls[c].op = "executeCommand" /\ calls[c].noEnter
       => LET call  == calls[c]
              sends == SendsIssued(call)
          IN /\ Len(call.gw) = Len(sends)
             /\ \A i \in 1..Len(sends) : sends[i].target = call.paneId
             /\ IF call.command \in specialKeys
                THEN /\ Len(sends) <= 1
                     /\ call.pc = "returned" => Len(sends) = 1
                     /\ \A i \in 1..Len(sends) : KeysOf(call, i) = << call.command >>
                ELSE /\ Len(sends) <= Len(call.command)
                     /\ call.pc = "returned" => Len(sends) = Len(call.command)
                     /\ \A i \in 1..Len(sends) :
                           /\ KeysOf(call, i) = << << call.command[i] >> >>
                           /\ sends[i].keys[1] # Bare(Enter)
             /\ \A i \in 1..Len(sends) : \A k \in 1..Len(KeysOf(call, i)) :
                   /\ KeysOf(call, i)[k] # hookToken
                   /\ ~ IsPartOf(startMarkerText, KeysOf(call, i)[k])
                   /\ ~ IsPartOf(endMarkerPrefix, KeysOf(call, i)[k])

\* C11 witness: a noEnter call with the text ab has returned after two
\* send-keys commands.
C11_Witness ==
    \E c \in Calls :
       /\ calls[c].op = "executeCommand"
       /\ calls[c].noEnter
       /\ calls[c].command = TextAb
       /\ calls[c].pc = "returned"
       /\ Len(SendsIssued(calls[c])) = 2

\* C13: setShellConfig with fish makes the end-marker text the prefix
\* followed by $status; with bash or zsh the prefix followed by $?; with any
\* other string the configured shell becomes bash and the text the bash one,
\* whatever was configured before.
C13_EndMarkerFollowsShell ==
    [][\A c \in Calls, t \in ShellTypes :
          setShellConfig(c, [type |-> t])
          => /\ t = <<"f","i","s","h">>
                   => /\ shellConfig'.type = t
                      /\ getEndMarkerText'
                            = endMarkerPrefix \o <<"$","s","t","a","t","u","s">>
             /\ t \in {<<"b","a","s","h">>, <<"z","s","h">>}
                   => /\ shellConfig'.type = t
                      /\ getEndMarkerText' = endMarkerPrefix \o <<"$","?">>
             /\ t \notin {<<"f","i","s","h">>, <<"b","a","s","h">>, <<"z","s","h">>}
                   => /\ shellConfig'.type = <<"b","a","s","h">>
                      /\ getEndMarkerText' = endMarkerPrefix \o <<"$","?">>]_vars

\* C13 witness: setShellConfig was last called with Fish in capitals and the
\* configured shell is bash.
C13_Witness ==
    \E c \in Calls :
       /\ calls[c] = ConfigCall([type |-> <<"F","i","s","h">>])
       /\ shellConfig.type = ShellBash
       /\ getEndMarkerText = endMarkerPrefix \o <<"$","?">>

\* a normal-mode executeCommand issued its first send-keys command in this step
FirstSendIssued(c) ==
    /\ calls'[c].op = "executeCommand"
    /\ ~ calls'[c].rawMode /\ ~ calls'[c].noEnter
    /\ SendsIssued(calls'[c]) # <<>>
    /\ \/ calls[c].op # "executeCommand"
       \/ calls[c].pc \notin {"send", "returned", "threw"}
       \/ SendsIssued(calls[c]) = <<>>

\* C14 as claimed: a normal-mode executeCommand that returned has sent two
\* send-keys commands, the hook token with Enter and then the command with
\* Enter.
C14_TwoKeySends ==
    \A c \in Calls :
       /\ calls[c].op = "executeCommand"
       /\ ~ calls[c].rawMode /\ ~ calls[c].noEnter
       /\ calls[c].pc = "returned"
       => /\ Len(SendsIssued(calls[c])) = 2
          /\ KeysOf(calls[c], 1) = << hookToken, Enter >>
          /\ KeysOf(calls[c], 2) = << calls[c].command, Enter >>

\* C14 as amended: a normal-mode executeCommand on an eligible pane stores the
\* pending record no later than it issues its send-keys command, and sends
\* one send-keys command whose keys are, in order, the hook token, Enter,
\* the command, Enter.
C14_HookThenCommandInOneSend ==
    /\ [](\A c \in Calls :
            /\ calls[c].op = "executeCommand"
            /\ ~ calls[c].rawMode /\ ~ calls[c].noEnter
            => LET sends == SendsIssued(calls[c])
               IN /\ Len(sends) <= 1
                  /\ calls[c].pc \in {"send", "returned"} => Len(sends) = 1
                  /\ \A i \in 1..Len(sends) :
                        KeysOf(calls[c], i)
                           = << hookToken, Enter, calls[c].command, Enter >>)
    /\ [][\A c \in Calls :
            FirstSendIssued(c)
            => LET id == calls'[c].commandId
               IN /\ id \notin DOMAIN activeCommands
                  /\ id \in DOMAIN activeCommands'
                  /\ activeCommands'[id].status = "pending"
                  /\ activeCommands'[id].command = calls'[c].command
                  /\ activeCommands'[id].paneId = calls'[c].paneId
                  /\ ~ activeCommands'[id].rawMode]_vars

\* C14 witness: a normal-mode call with a command holding a quote has
\* returned the identifier of its pending record.
C14_Witness ==
    \E c \in Calls :
       /\ calls[c].op = "executeCommand"
       /\ ~ calls[c].rawMode /\ ~ calls[c].noEnter
       /\ calls[c].command = CmdText
       /\ calls[c].pc = "returned"
       /\ calls[c].ret = Some(calls[c].commandId)
       /\ calls[c].commandId \in DOMAIN activeCommands
       /\ activeCommands[calls[c].commandId].status = "pending"

\* a captured text that cannot be parsed: a marker is absent, the last end
\* marker is not after the last start marker, or no digit follows it
Unparseable(content) ==
    LET s == LastIndexOf(content, startMarkerText)
        e == LastIndexOf(content, endMarkerPrefix)
    IN s = -1 \/ e = -1 \/ e <= s \/ DigitsAt(content, e) = <<>>

\* C12: a status check that resumes on a pending normal-mode record returns
\* the record without an error; on a capture that cannot be parsed the record
\* stays tracked, pending and without exitCode, and on a capture with a valid
\* marker pair it becomes completed or error, whatever earlier checks left in
\* it; a check begun on a pending record always captures the pane again.
C12_UnparsedStaysRetryable ==
    /\ [][\A c \in Calls :
            /\ Resumed(c)
            /\ calls[c].commandId \in DOMAIN activeCommands
            /\ activeCommands[calls[c].commandId].status = "pending"
            /\ ~ activeCommands[calls[c].commandId].rawMode
            => LET id == calls[c].commandId
               IN /\ calls'[c].err = ""
                  /\ calls'[c].ret = Some(id)
                  /\ id \in DOMAIN activeCommands'
                  /\ IF Unparseable(calls[c].content)
                     THEN /\ activeCommands'[id].status = "pending"
                          /\ activeCommands'[id].exitCode = Unset
                     ELSE Terminal(activeCommands'[id])]_vars
    /\ [][\A c \in Calls :
            /\ BeganCheck(c)
            /\ calls'[c].commandId \in DOMAIN activeCommands
            /\ activeCommands[calls'[c].commandId].status = "pending"
            => calls'[c].pc = "capture"]_vars

\* C12 witness: one check of a record returned after a capture without an
\* end marker, another returned after a capture with a complete pair, and
\* the record is completed with the output of the command.
C12_Witness ==
    \E c, d \in Calls, id \in DOMAIN activeCommands :
       /\ calls[d].op = "checkCommandStatus"
       /\ calls[d].pc = "returned"
       /\ calls[d].ret = Some(id)
       /\ calls[d].content = Trim(ScreenRunning)
       /\ calls[c].op = "checkCommandStatus"
       /\ calls[c].pc = "returned"
       /\ calls[c].ret = Some(id)
       /\ calls[c].content = Trim(ScreenDone0)
       /\ activeCommands[id].status = "completed"
       /\ activeCommands[id].result = Some(<<"h","i">>)

\* C15: while no capture shows an end marker after the last start marker,
\* every record ever registered is still tracked and pending, without an
\* exitCode, after any status checks, cleanups with any maxAgeMinutes and any
\* passage of time: getActiveCommandIds returns every identifier handed out.
C15_NeverEndingStaysPending ==
    /\ getActiveCommandIds = 1..(nextId - 1)
    /\ detached = <<>>
    /\ \A id \in getActiveCommandIds :
          /\ getCommand(id) # Unset
          /\ getCommand(id)[1].status = "pending"
          /\ getCommand(id)[1].exitCode = Unset

\* C15 witness: a normal-mode record is a minute old, older than the
\* maxAgeMinutes 0 of a cleanup, and a check of it has returned after a
\* capture that shows the finished markers of an earlier command before its
\* own start marker; it is pending.
C15_Witness ==
    \E c \in Calls, id \in getActiveCommandIds :
       /\ ~ activeCommands[id].rawMode
       /\ now - activeCommands[id].startTime = MsPerMinute
       /\ calls[c].op = "checkCommandStatus"
       /\ calls[c].pc = "returned"
       /\ calls[c].ret = Some(id)
       /\ calls[c].content = Trim(ScreenStale)
       /\ activeCommands[id].status = "pending"
       /\ activeCommands[id].result = Some(NotCapturedAdvice)

\* every capture answered in this step succeeded with a text whose last end
\* marker follows the last start marker and carries digits
CapturesParseable ==
    \A c \in Calls :
       /\ calls[c].op = "checkCommandStatus"
       /\ calls[c].pc = "capture"
       /\ calls'[c] # calls[c]
       => /\ calls'[c].pc = "captured"
          /\ ~ Unparseable(calls'[c].content)

\* record id is tracked, normal-mode and pending
PendingNormal(id) ==
    /\ id \in DOMAIN activeCommands
    /\ activeCommands[id].status = "pending"
    /\ ~ activeCommands[id].rawMode

\* C16: if status checks of a record keep being made and from some point on
\* every capture succeeds and shows a start marker followed by an end marker
\* with digits, a pending normal-mode record is eventually completed or
\* error; and a record leaves pending only in the step in which a status
\* check of it resumes after its capture.
C16_PollingResolves ==
    /\ \A id \in Ids :
          (/\ SF_vars(\E c \in Calls : CheckBegin(c, id))
           /\ <>[][CapturesParseable]_vars)
          => (PendingNormal(id)
                ~> (id \in DOMAIN activeCommands /\ Terminal(activeCommands[id])))
    /\ [][\A id \in DOMAIN activeCommands \cap DOMAIN activeCommands' :
            /\ activeCommands[id].status = "pending"
            /\ activeCommands'[id].status # "pending"
            => \E c \in Calls : Resumed(c) /\ calls[c].commandId = id]_vars

\* C16 witness: a normal-mode record is in error, resolved by a check whose
\* capture showed the exit status 127.
C16_Witness ==
    \E c \in Calls, id \in DOMAIN activeCommands :
       /\ ~ activeCommands[id].rawMode
       /\ activeCommands[id].status = "error"
       /\ activeCommands[id].exitCode = Some(127)
       /\ calls[c].op = "checkCommandStatus"
       /\ calls[c].pc = "returned"
       /\ calls[c].commandId = id
       /\ ~ Unparseable(calls[c].content)
       /\ calls[c].gw = << CapturePane(activeCommands[id].paneId, CaptureLines) >>

\* the capture of caller c failed in this step
CaptureFailed(c) ==
    /\ calls[c].op = "checkCommandStatus"
    /\ calls[c].pc = "capture"
    /\ calls'[c].pc = "threw"

\* a status check of record id by caller d has failed at its capture
FailedCheck(d, id) ==
    /\ calls[d].op = "checkCommandStatus"
    /\ calls[d].pc = "threw"
    /\ calls[d].err = "GatewayFailure"
    /\ calls[d].commandId = id

\* C17: a capture that fails inside a status check fails that call with the
\* gateway failure and nothing else: the registry with every record, of
\* either mode, and every other call are as before the step; a check begun on
\* a pending record after a failed one captures the pane again, and one that
\* resumes with a parseable capture resolves a pending normal-mode record.
C17_CaptureFailureIsLocal ==
    /\ [][\A c \in Calls :
            CaptureFailed(c)
            => /\ calls'[c].err = "GatewayFailure"
               /\ calls'[c].ret = Unset
               /\ activeCommands' = activeCommands
               /\ nextId' = nextId
               /\ \A d \in Calls \ {c} : calls'[d] = calls[d]]_vars
    /\ [][\A c, d \in Calls :
            /\ BeganCheck(c)
            /\ FailedCheck(d, calls'[c].commandId)
            /\ calls'[c].commandId \in DOMAIN activeCommands
            /\ activeCommands[calls'[c].commandId].status = "pending"
            => calls'[c].pc = "capture"]_vars
    /\ [][\A c, d \in Calls :
            /\ Resumed(c)
            /\ FailedCheck(d, calls[c].commandId)
            /\ PendingNormal(calls[c].commandId)
            /\ ~ Unparseable(calls[c].content)
            => Terminal(activeCommands'[calls[c].commandId])]_vars

\* C17 witness: one check of a normal-mode record failed at its capture,
\* another check of the same record has returned after a capture showing the
\* exit status 127, and the record is in error.
C17_Witness ==
    \E c, d \in Calls, id \in DOMAIN activeCommands :
       /\ FailedCheck(d, id)
       /\ calls[c].op = "checkCommandStatus"
       /\ calls[c].pc = "returned"
       /\ calls[c].ret = Some(id)
       /\ calls[c].content = Trim(ScreenDone127)
       /\ ~ activeCommands[id].rawMode
       /\ activeCommands[id].status = "error"
       /\ activeCommands[id].exitCode = Some(127)

\* C18: an executeCommand that failed, rejected by the eligibility test or
\* by a gateway failure, has added no record: no tracked record belongs to a
\* call that threw, whose identifier no caller received.
C18_FailedSubmitAddsNoRecord ==
    \A c \in Calls :
       /\ calls[c].op = "executeCommand"
       /\ calls[c].pc = "threw"
       => /\ calls[c].ret = Unset
          /\ calls[c].commandId \notin DOMAIN activeCommands

\* C20: an identifier that was handed out and is no longer tracked, its
\* record removed by cleanupOldCommands, is not tracked in the next state
\* either: getCommand stays null for it and getActiveCommandIds without it,
\* whatever status checks of it were suspended when it was removed.
C20_RemovedStaysRemoved ==
    [][\A id \in 1..(nextId - 1) :
          id \notin getActiveCommandIds
          => /\ id \notin getActiveCommandIds'
             /\ getCommand(id)' = Unset]_vars

\* the exit status a command ends with, as a number
ExitStatusOf(command) == DecimalSum(ExitDigits(command), 1)

\* the text after the last start marker of a capture shows the command typed
\* at a prompt
ShowsOwnCommand(content, command) ==
    LET s == LastIndexOf(content, startMarkerText)
    IN /\ s # -1
       /\ IsPartOf(EchoLine(command), SubstringFrom(content, s))

\* C19: a status check resolves a normal-mode record only from the markers
\* of its own command: it leaves the record pending when the capture does
\* not show the command after the last start marker, and a record that
\* becomes completed or error gets the exit status of its own command.
C19_ResolvedFromOwnMarkers ==
    [][\A c \in Calls :
          /\ Resumed(c)
          /\ PendingNormal(calls[c].commandId)
          => LET id      == calls[c].commandId
                 command == activeCommands[id].command
             IN /\ ~ ShowsOwnCommand(calls[c].content, command)
                      => activeCommands'[id].status = "pending"
                /\ Terminal(activeCommands'[id])
                      => activeCommands'[id].exitCode = Some(ExitStatusOf(command))]_vars

====
